---- MODULE Spec2Model ----
(***************************************************************************)
(* Timeline normalisation of growth_curve_pannel.py / growth_curve_plot.py *)
(* (urtepuod/cell-code): timestamp parsing, elapsed hours, cutoff          *)
(* filtering, and the control flow of plot_cell_counts_separate_timelines. *)
(*                                                                         *)
(* Text is a sequence of one-character strings.  A datetime is a record    *)
(* of its calendar fields.  A float number of hours is the exact fraction  *)
(* <<numerator, denominator>> in lowest terms (the cutoffs are integers    *)
(* and the second counts stay far below 2^53, so the comparison            *)
(* time <= max_hour on the floats agrees with the one on the fractions).   *)
(***************************************************************************)
EXTENDS Integers, Sequences, FiniteSets, TLC

(***************************************************************************)
(* Locals of plot_cell_counts_separate_timelines that the operators below  *)
(* may read; the rest of the state is declared with the function's steps.  *)
(***************************************************************************)

VARIABLES
  bound,                   \* the local names assigned so far
  main_start               \* local, line 54

(***************************************************************************)
(* Python values                                                           *)
(***************************************************************************)

\* None (and pandas' NaN for a missing cell)
None == [none |-> TRUE]

Some(v) == [none |-> FALSE, val |-> v]

\* a call that returned v / a call that raised exception e
Return(v) == [exc |-> "none", val |-> v]

Raise(e) == [exc |-> e]

\* ord(c) for the characters timestamps are made of
Ord ==
  [c \in {" ", "-", "0", "1", "2", "3", "4", "5", "6", "7", "8", "9", ":", "_"} |->
     CASE c = " " -> 32 [] c = "-" -> 45 [] c = ":" -> 58 [] c = "_" -> 95
       [] c = "0" -> 48 [] c = "1" -> 49 [] c = "2" -> 50 [] c = "3" -> 51
       [] c = "4" -> 52 [] c = "5" -> 53 [] c = "6" -> 54 [] c = "7" -> 55
       [] c = "8" -> 56 [] c = "9" -> 57]

IsDigit(c) == c \in {"0", "1", "2", "3", "4", "5", "6", "7", "8", "9"}

\* int(c) of a digit
DigitVal(c) == Ord[c] - Ord["0"]

\* str.__lt__: lexicographic on code points, a proper prefix is smaller
RECURSIVE StrLess(_, _)
StrLess(a, b) ==
  IF b = <<>> THEN FALSE
  ELSE IF a = <<>> THEN TRUE
  ELSE IF Ord[Head(a)] # Ord[Head(b)] THEN Ord[Head(a)] < Ord[Head(b)]
  ELSE StrLess(Tail(a), Tail(b))

(***************************************************************************)
(* datetime.strptime (CPython _strptime): the format is compiled to a      *)
(* regular expression, one group per directive, which must match the whole *)
(* text; the fields then go through the datetime constructor.              *)
(***************************************************************************)

\* "%Y-%m-%d %H:%M:%S", the format of the control tables
ControlFormat == <<"%Y", "-", "%m", "-", "%d", " ", "%H", ":", "%M", ":", "%S">>

\* "%y_%m_%d_%H_%M_%S", the format of the spreadsheet's 'Folder Name'
FolderFormat == <<"%y", "_", "%m", "_", "%d", "_", "%H", "_", "%M", "_", "%S">>

IsDirective(tok) == tok \in {"%Y", "%y", "%m", "%d", "%H", "%M", "%S"}

\* the alternatives of a directive's group, in the order the regular
\* expression tries them: leading blanks, number of digits and the range of
\* the value
\*   %Y \d\d\d\d   %y \d\d   %m 1[0-2]|0[1-9]|[1-9]
\*   %d 3[0-1]|[1-2]\d|0[1-9]|[1-9]| [1-9]   %H 2[0-3]|[0-1]\d|\d
\*   %M [0-5]\d|\d   %S 6[0-1]|[0-5]\d|\d
Alternatives(tok) ==
  CASE tok = "%Y" -> << [pad |-> 0, len |-> 4, lo |-> 0, hi |-> 9999] >>
    [] tok = "%y" -> << [pad |-> 0, len |-> 2, lo |-> 0, hi |-> 99] >>
    [] tok = "%m" -> << [pad |-> 0, len |-> 2, lo |-> 1, hi |-> 12], [pad |-> 0, len |-> 1, lo |-> 1, hi |-> 9] >>
    [] tok = "%d" -> << [pad |-> 0, len |-> 2, lo |-> 1, hi |-> 31], [pad |-> 0, len |-> 1, lo |-> 1, hi |-> 9],
                        [pad |-> 1, len |-> 1, lo |-> 1, hi |-> 9] >>
    [] tok = "%H" -> << [pad |-> 0, len |-> 2, lo |-> 0, hi |-> 23], [pad |-> 0, len |-> 1, lo |-> 0, hi |-> 9] >>
    [] tok = "%M" -> << [pad |-> 0, len |-> 2, lo |-> 0, hi |-> 59], [pad |-> 0, len |-> 1, lo |-> 0, hi |-> 9] >>
    [] tok = "%S" -> << [pad |-> 0, len |-> 2, lo |-> 0, hi |-> 61], [pad |-> 0, len |-> 1, lo |-> 0, hi |-> 9] >>

\* int() of a run of digits
RECURSIVE ToInt(_)
ToInt(ds) == IF ds = <<>> THEN 0 ELSE 10 * ToInt(SubSeq(ds, 1, Len(ds) - 1)) + DigitVal(ds[Len(ds)])

\* does alternative alt match text s at position i
AltMatches(s, i, alt) ==
  /\ i + alt.pad + alt.len - 1 <= Len(s)
  /\ \A k \in i..(i + alt.pad - 1) : s[k] = " "
  /\ \A k \in (i + alt.pad)..(i + alt.pad + alt.len - 1) : IsDigit(s[k])
  /\ ToInt(SubSeq(s, i + alt.pad, i + alt.pad + alt.len - 1)) \in alt.lo..alt.hi

\* number of blanks of s from position i on
RECURSIVE BlankRun(_, _)
BlankRun(s, i) == IF i <= Len(s) /\ s[i] = " " THEN 1 + BlankRun(s, i + 1) ELSE 0

\* re.match of the compiled format from token k on, at position i of s:
\* the sequence of the groups' values, or <<-1>> when there is no match or
\* text is left over ("unconverted data remains")
NoMatch == <<-1>>

\* characters an alternative takes
AltWidth(alt) == alt.pad + alt.len

\* the groups matched when alternative alt is taken at position i and the
\* rest of the format matched as rest; otherwise when it did not
FirstMatch(s, i, alt, rest, otherwise) ==
  IF rest # NoMatch
  THEN <<ToInt(SubSeq(s, i + alt.pad, i + AltWidth(alt) - 1))>> \o rest
  ELSE otherwise

RECURSIVE MatchFrom(_, _, _, _), MatchGroup(_, _, _, _, _)
MatchFrom(s, i, fmt, k) ==
  IF k > Len(fmt) THEN (IF i = Len(s) + 1 THEN <<>> ELSE NoMatch)
  ELSE IF IsDirective(fmt[k]) THEN MatchGroup(s, i, fmt, k, 1)
  ELSE IF fmt[k] = " " THEN
    \* whitespace in a format matches \s+
    (IF BlankRun(s, i) = 0 THEN NoMatch ELSE MatchFrom(s, i + BlankRun(s, i), fmt, k + 1))
  ELSE IF i <= Len(s) /\ s[i] = fmt[k] THEN MatchFrom(s, i + 1, fmt, k + 1)
  ELSE NoMatch

\* the group of directive fmt[k] from its a-th alternative on: the first
\* alternative after which the rest of the format matches
MatchGroup(s, i, fmt, k, a) ==
  IF a > Len(Alternatives(fmt[k])) THEN NoMatch
  ELSE FirstMatch(s, i, Alternatives(fmt[k])[a],
                  IF AltMatches(s, i, Alternatives(fmt[k])[a])
                  THEN MatchFrom(s, i + AltWidth(Alternatives(fmt[k])[a]), fmt, k + 1)
                  ELSE NoMatch,
                  MatchGroup(s, i, fmt, k, a + 1))

IsLeap(year) == year % 4 = 0 /\ (year % 100 # 0 \/ year % 400 = 0)

\* datetime._days_in_month
DaysInMonth(year, month) ==
  IF month = 2 THEN (IF IsLeap(year) THEN 29 ELSE 28)
  ELSE IF month \in {4, 6, 9, 11} THEN 30 ELSE 31

\* the century of a two-digit %y year: 69..99 are 19xx, 0..68 are 20xx
PivotYear(yy) == IF yy <= 68 THEN 2000 + yy ELSE 1900 + yy

\* the datetime constructor on the groups g of a match: the year of %y is
\* moved to its century, and a day past the month's end or a second past 59
\* is refused
FromGroups(g, year) ==
  IF year < 1 \/ g[3] > DaysInMonth(year, g[2]) \/ g[6] > 59
  THEN Raise("ValueError")
  ELSE Return([year |-> year, month |-> g[2], day |-> g[3],
               hour |-> g[4], minute |-> g[5], second |-> g[6]])

\* the result of strptime when the regular expression matched as g
FromMatch(g, fmt) ==
  IF g = NoMatch THEN Raise("ValueError")
  ELSE FromGroups(g, IF fmt[1] = "%y" THEN PivotYear(g[1]) ELSE g[1])

\* datetime.strptime(text, fmt): Return(datetime) or Raise("ValueError")
strptime(text, fmt) == FromMatch(MatchFrom(text, 1, fmt, 1), fmt)

\* growth_curve_pannel.py parse_datetime (growth_curve_plot.py has the same)
parse_datetime(datetime_str, format_str) == strptime(datetime_str, format_str)

(***************************************************************************)
(* datetime arithmetic                                                     *)
(***************************************************************************)

\* datetime._days_before_year
DaysBeforeYear(year) ==
  LET y == year - 1 IN y * 365 + (y \div 4) - (y \div 100) + (y \div 400)

RECURSIVE DaysBeforeMonth(_, _)
DaysBeforeMonth(year, month) ==
  IF month = 1 THEN 0 ELSE DaysBeforeMonth(year, month - 1) + DaysInMonth(year, month - 1)

\* date.toordinal
ToOrdinal(dt) == DaysBeforeYear(dt.year) + DaysBeforeMonth(dt.year, dt.month) + dt.day

SecondOfDay(dt) == dt.hour * 3600 + dt.minute * 60 + dt.second

\* mutant of TotalSeconds: the difference taken the other way round
TotalSeconds_swapped(dt, reference) ==
  (ToOrdinal(reference) - ToOrdinal(dt)) * 86400 + SecondOfDay(reference) - SecondOfDay(dt)

\* (dt - reference).total_seconds() of two naive datetimes
TotalSeconds(dt, reference) ==
  (ToOrdinal(dt) - ToOrdinal(reference)) * 86400 + SecondOfDay(dt) - SecondOfDay(reference)

Abs(n) == IF n < 0 THEN -n ELSE n

RECURSIVE Gcd(_, _)
Gcd(a, b) == IF b = 0 THEN a ELSE Gcd(b, a % b)

\* the number n / d as a fraction in lowest terms with a positive denominator
Fraction(n, d) == LET g == Gcd(Abs(n), d) IN <<n \div g, d \div g>>

\* mutant of LessEq: the cutoff taken as exclusive
LessEq_exclusive(time, max_hour) == time[1] < max_hour * time[2]

\* mutant of LessEq: the comparison turned around
LessEq_inverted(time, max_hour) == time[1] >= max_hour * time[2]

\* time <= max_hour, time a fraction and max_hour an integer
LessEq(time, max_hour) == time[1] <= max_hour * time[2]

\* the float 0.0
Zero == <<0, 1>>

\* mutant of calculate_time_differences_in_hours: seconds divided by 60
calculate_time_differences_in_minutes(datetimes, reference_datetime) ==
  [i \in 1..Len(datetimes) |->
     Fraction(TotalSeconds(datetimes[i], reference_datetime), 60)]

\* growth_curve_pannel.py calculate_time_differences_in_hours
calculate_time_differences_in_hours(datetimes, reference_datetime) ==
  [i \in 1..Len(datetimes) |->
     Fraction(TotalSeconds(datetimes[i], reference_datetime), 3600)]

Min(a, b) == IF a <= b THEN a ELSE b

\* zip(a, b): pairs up to the shorter argument
Zip(a, b) == [i \in 1..Min(Len(a), Len(b)) |-> <<a[i], b[i]>>]

\* growth_curve_pannel.py filter_data_by_hour
filter_data_by_hour(time_differences, data, max_hour) ==
  LET Keep(pair) == LessEq(pair[1], max_hour)
  IN SelectSeq(Zip(time_differences, data), Keep)

\* a list comprehension whose first element evaluated as first and whose
\* other elements as rest: the first exception ends it
Cons(first, rest) ==
  IF first.exc # "none" THEN first
  ELSE IF rest.exc # "none" THEN rest
  ELSE Return(<<first.val>> \o rest.val)

\* [parse_datetime(ts, fmt) for ts in texts]
RECURSIVE MapParse(_, _)
MapParse(texts, fmt) ==
  IF texts = <<>> THEN Return(<<>>)
  ELSE Cons(parse_datetime(Head(texts), fmt), MapParse(Tail(texts), fmt))

\* bool(x) of None or a list: None and the empty list are falsy
Truth(x) == ~x.none /\ x.val # <<>>

\* mutant of ControlTimeline: the last timestamp taken as the reference
ControlTimeline_last(control_datetimes, control_values, max_hour) ==
  filter_data_by_hour(
    calculate_time_differences_in_hours(control_datetimes,
                                        control_datetimes[Len(control_datetimes)]),
    control_values, max_hour)

\* mutant of ControlTimeline: the controls put on the clock of the main
\* series when there is one
ControlTimeline_shared(control_datetimes, control_values, max_hour) ==
  filter_data_by_hour(
    calculate_time_differences_in_hours(
      control_datetimes,
      IF "main_start" \in bound THEN main_start ELSE control_datetimes[1]),
    control_values, max_hour)

\* lines 27-30 of process_control_data_separate_timeline, the timestamps
\* parsed as control_datetimes
ControlTimeline(control_datetimes, control_values, max_hour) ==
  filter_data_by_hour(
    calculate_time_differences_in_hours(control_datetimes, control_datetimes[1]),
    control_values, max_hour)

\* lines 26-30: the comprehension of line 26 evaluated as parsed
ControlParsed(parsed, control_values, max_hour) ==
  IF parsed.exc # "none" THEN parsed
  ELSE Return(ControlTimeline(parsed.val, control_values, max_hour))

\* the first / second components of a list of pairs
Firsts(pairs) == [i \in 1..Len(pairs) |-> pairs[i][1]]

Seconds(pairs) == [i \in 1..Len(pairs) |-> pairs[i][2]]

\* growth_curve_pannel.py process_control_data_separate_timeline
process_control_data_separate_timeline(control_data, max_hour) ==
  IF ~Truth(control_data) THEN Return(<<>>)
  ELSE ControlParsed(MapParse(Firsts(control_data.val), ControlFormat),
                     Seconds(control_data.val), max_hour)

(***************************************************************************)
(* Input tables of the model                                               *)
(***************************************************************************)

DigitChar(d) == <<"0", "1", "2", "3", "4", "5", "6", "7", "8", "9">>[d + 1]

\* str(n) of a natural number
RECURSIVE Plain(_)
Plain(n) == IF n < 10 THEN <<DigitChar(n)>> ELSE Plain(n \div 10) \o <<DigitChar(n % 10)>>

\* n written with at least width digits, zero-padded
RECURSIVE Padded(_, _)
Padded(n, width) ==
  IF Len(Plain(n)) >= width THEN Plain(n) ELSE <<"0">> \o Padded(n, width - 1)

\* sep.join(fields)
RECURSIVE Join(_, _)
Join(fields, sep) ==
  IF Len(fields) = 1 THEN fields[1]
  ELSE fields[1] \o <<sep>> \o Join(Tail(fields), sep)

\* a control-table timestamp "YYYY-mm-dd HH:MM:SS"
Stamp(Y, m, d, H, M, S) ==
  Padded(Y, 4) \o <<"-">> \o Padded(m, 2) \o <<"-">> \o Padded(d, 2) \o <<" ">>
    \o Padded(H, 2) \o <<":">> \o Padded(M, 2) \o <<":">> \o Padded(S, 2)

\* a folder name "yy_mm_dd_HH_MM_SS", every field zero-padded to two digits
Folder(y, m, d, H, M, S) ==
  Join(<<Padded(y, 2), Padded(m, 2), Padded(d, 2), Padded(H, 2), Padded(M, 2), Padded(S, 2)>>, "_")

\* a folder name whose fields after the year are not zero-padded
FolderUnpadded(y, m, d, H, M, S) ==
  Join(<<Padded(y, 2), Plain(m), Plain(d), Plain(H), Plain(M), Plain(S)>>, "_")

(***************************************************************************)
(* pandas: the spreadsheet of the main series                              *)
(***************************************************************************)

\* a row of the sheet: 'Folder Name' and 'Concentration(ml)', either cell
\* possibly missing (NaN)
Row(folder, conc) == [folder |-> folder, conc |-> conc]

\* does row a have to come before row b in sort_values(by='Folder Name'):
\* string order of the labels, missing labels last
SortsBefore(a, b) ==
  /\ ~a.folder.none
  /\ (b.folder.none \/ StrLess(a.folder.val, b.folder.val))

\* df.sort_values(by='Folder Name'): the orders the (not stable) default sort
\* can leave the rows in
SortedOrders(rows) ==
  {p \in Permutations(1..Len(rows)) :
     \A i \in 1..Len(rows) : \A j \in (i + 1)..Len(rows) :
       ~SortsBefore(rows[p[j]], rows[p[i]])}

\* df.dropna(subset=['Folder Name', 'Concentration(ml)'])
DropNa(rows) ==
  LET Complete(r) == ~r.folder.none /\ ~r.conc.none IN SelectSeq(rows, Complete)

(***************************************************************************)
(* plot_cell_counts_separate_timelines, one invocation, in the two files.  *)
(* variant tells the file: "pannel" is growth_curve_pannel.py, "plot" is   *)
(* growth_curve_plot.py.                                                   *)
(***************************************************************************)

VARIABLES
  variant,                 \* which file's function runs
  sheet,                   \* what pd.read_excel returns: the rows, in file order
  control_data_diluted,    \* argument: None or a list of (timestamp text, value)
  control_data_undiluted,  \* argument: None or a list of (timestamp text, value)
  std_devs,                \* argument: None or a list of numbers
  max_hour,                \* argument
  save_path,               \* argument: None or a path
  pc,                      \* position in the function body
  dirs, counts,            \* locals, lines 49-50
  main_datetimes, main_hours, main_data,   \* locals, lines 53 and 55-56
  diluted, undiluted,      \* locals, lines 59-63
  times_main, vals_main,   \* locals, unpacked from main_data
  calls,                   \* the calls made to matplotlib, in order
  raised,                  \* the exception that left the function, or "none"
  prev,                    \* the previous invocation's arguments and results
  normalizer,              \* calls of process_control_data_separate_timeline on one table
  filter                   \* a call of filter_data_by_hour

args == <<variant, sheet, control_data_diluted, control_data_undiluted,
          std_devs, max_hour, save_path>>

locals == <<bound, dirs, counts, main_datetimes, main_start, main_hours, main_data,
            diluted, undiluted, times_main, vals_main>>

\* what the steps of an invocation leave alone
rest == <<prev, normalizer, filter>>

vars == <<args, pc, locals, calls, raised, rest>>

\* the function is left by exception e
Abort(e) == /\ pc' = "raised"
            /\ raised' = e

\* control moves on to label
Goto(label) == /\ pc' = label
               /\ raised' = raised

\* lines 47-50: read the sheet, sort it by label, drop incomplete rows
ReadExcel ==
  /\ pc = "read_excel"
  /\ \E order \in SortedOrders(sheet) :
       LET df == DropNa([i \in 1..Len(sheet) |-> sheet[order[i]]]) IN
       /\ dirs' = [i \in 1..Len(df) |-> df[i].folder.val]
       /\ counts' = [i \in 1..Len(df) |-> df[i].conc.val]
  /\ bound' = bound \cup {"dirs", "counts"}
  /\ Goto("parse_main")
  /\ UNCHANGED <<args, main_datetimes, main_start, main_hours, main_data,
                 diluted, undiluted, times_main, vals_main, calls, rest>>

\* line 53: main_datetimes = [datetime.strptime(dt, "%y_%m_%d_%H_%M_%S") for dt in dirs]
ParseMain ==
  /\ pc = "parse_main"
  /\ LET parsed == MapParse(dirs, FolderFormat) IN
     IF parsed.exc # "none"
     THEN /\ Abort(parsed.exc)
          /\ UNCHANGED <<main_datetimes, bound>>
     ELSE /\ main_datetimes' = parsed.val
          /\ bound' = bound \cup {"main_datetimes"}
          /\ Goto("main_start")
  /\ UNCHANGED <<args, dirs, counts, main_start, main_hours, main_data,
                 diluted, undiluted, times_main, vals_main, calls, rest>>

\* line 54: main_start = main_datetimes[0]
MainStart ==
  /\ pc = "main_start"
  /\ IF main_datetimes = <<>>
     THEN /\ Abort("IndexError")
          /\ UNCHANGED <<main_start, bound>>
     ELSE /\ main_start' = main_datetimes[1]
          /\ bound' = bound \cup {"main_start"}
          /\ Goto("main_hours")
  /\ UNCHANGED <<args, dirs, counts, main_datetimes, main_hours, main_data,
                 diluted, undiluted, times_main, vals_main, calls, rest>>

\* lines 55-56: elapsed hours of the main series and the cutoff
MainNormalize ==
  /\ pc = "main_hours"
  /\ main_hours' = calculate_time_differences_in_hours(main_datetimes, main_start)
  /\ main_data' = filter_data_by_hour(main_hours', counts, max_hour)
  /\ bound' = bound \cup {"main_hours", "main_data"}
  /\ Goto("diluted")
  /\ UNCHANGED <<args, dirs, counts, main_datetimes, main_start,
                 diluted, undiluted, times_main, vals_main, calls, rest>>

\* line 59: diluted = process_control_data_separate_timeline(control_data_diluted, max_hour)
ProcessDiluted ==
  /\ pc = "diluted"
  /\ LET r == process_control_data_separate_timeline(control_data_diluted, max_hour) IN
     IF r.exc # "none"
     THEN /\ Abort(r.exc)
          /\ UNCHANGED <<diluted, bound>>
     ELSE /\ diluted' = r.val
          /\ bound' = bound \cup {"diluted"}
          /\ Goto("undiluted")
  /\ UNCHANGED <<args, dirs, counts, main_datetimes, main_start, main_hours, main_data,
                 undiluted, times_main, vals_main, calls, rest>>

\* line 60: undiluted = process_control_data_separate_timeline(control_data_undiluted, max_hour)
ProcessUndiluted ==
  /\ pc = "undiluted"
  /\ LET r == process_control_data_separate_timeline(control_data_undiluted, max_hour) IN
     IF r.exc # "none"
     THEN /\ Abort(r.exc)
          /\ UNCHANGED <<undiluted, bound>>
     ELSE /\ undiluted' = r.val
          /\ bound' = bound \cup {"undiluted"}
          /\ Goto("skip_first")
  /\ UNCHANGED <<args, dirs, counts, main_datetimes, main_start, main_hours, main_data,
                 diluted, times_main, vals_main, calls, rest>>

\* mutant of SkipFirst: the first point dropped from any non-empty series
SkipFirst_always(series) == IF Len(series) > 0 THEN Tail(series) ELSE series

\* diluted[1:] if len(diluted) > 1 else diluted
SkipFirst(series) == IF Len(series) > 1 THEN Tail(series) ELSE series

\* line 63: optionally skip the first diluted point
SkipFirstDiluted ==
  /\ pc = "skip_first"
  /\ diluted' = SkipFirst(diluted)
  /\ Goto("begin_plot")
  /\ UNCHANGED <<args, bound, dirs, counts, main_datetimes, main_start, main_hours,
                 main_data, undiluted, times_main, vals_main, calls, rest>>

\* a call to the charting library that draws no series
Chart(fn) == [fn |-> fn]

\* a call to the charting library that draws the points (x[i], y[i])
Draw(fn, x, y) == [fn |-> fn, x |-> x, y |-> y]

\* line 66 and the axis setup after it: the first calls to matplotlib
BeginPlot ==
  /\ pc = "begin_plot"
  /\ calls' = Append(calls, Chart("plt.subplots"))
  /\ Goto(IF variant = "plot" THEN "top_panel" ELSE "max_marker")
  /\ UNCHANGED <<args, locals, rest>>

\* growth_curve_plot.py lines 83-99: the main series on the top panel; the
\* names times_main and vals_main are locals of the function, assigned only
\* at line 109
PlotTopPanel ==
  /\ pc = "top_panel"
  /\ IF ~({"times_main", "vals_main"} \subseteq bound)
     THEN /\ Abort("UnboundLocalError")
          /\ calls' = calls
     ELSE /\ calls' = calls \o <<Draw("ax_top.plot", times_main, vals_main),
                                 Chart("ax_top.plot star")>>
          /\ Goto("plot_main")
  /\ UNCHANGED <<args, locals, rest>>

\* growth_curve_pannel.py lines 85-126: the dashed extension of the y-axis
\* and the 'Theoretical max' label
DrawMaxMarker ==
  /\ pc = "max_marker"
  /\ calls' = calls \o <<Chart("ax1.plot y-extension"), Chart("ax1.plot max dash"),
                         Chart("ax1.text max")>>
  /\ Goto("plot_main")
  /\ UNCHANGED <<args, locals, rest>>

\* pannel lines 131-144 (plot lines 108-118): the main series
PlotMain ==
  /\ pc = "plot_main"
  /\ IF main_data # <<>>
     THEN /\ times_main' = Firsts(main_data)
          /\ vals_main' = Seconds(main_data)
          /\ bound' = bound \cup {"times_main", "vals_main"}
          /\ calls' = Append(calls, Draw("ax1.plot", times_main', vals_main'))
     ELSE UNCHANGED <<times_main, vals_main, bound, calls>>
  /\ Goto("mark_minimum")
  /\ UNCHANGED <<args, dirs, counts, main_datetimes, main_start, main_hours, main_data,
                 diluted, undiluted, rest>>

\* pannel lines 149-172 (plot lines 124-150): the 'Theoretical min' dash
MarkMinimum ==
  /\ pc = "mark_minimum"
  /\ calls' = IF main_data # <<>>
              THEN calls \o <<Chart("ax1.plot min dash"), Chart("ax1.text min")>>
              ELSE calls
  /\ Goto("plot_controls")
  /\ UNCHANGED <<args, locals, rest>>

\* mutant of PlotControls: len(std_devs) compared with the number of samples
\* of the diluted table as passed in
PlotControls_rawlength ==
  /\ pc = "plot_controls"
  /\ calls' =
       IF diluted # <<>> \/ undiluted # <<>>
       THEN calls \o <<Chart("ax1.twinx")>>
              \o (IF diluted # <<>>
                  THEN (IF Truth(std_devs)
                           /\ Len(std_devs.val) = Len(control_data_diluted.val)
                        THEN <<Draw("ax2.errorbar", Firsts(diluted), Seconds(diluted))>>
                        ELSE <<Draw("ax2.plot diluted", Firsts(diluted), Seconds(diluted))>>)
                  ELSE <<>>)
              \o (IF undiluted # <<>>
                  THEN <<Draw("ax2.plot undiluted", Firsts(undiluted), Seconds(undiluted))>>
                  ELSE <<>>)
       ELSE calls
  /\ Goto("legend")
  /\ UNCHANGED <<args, locals, rest>>

\* pannel lines 177-199 (plot lines 156-178): the controls on the twin axis
PlotControls ==
  /\ pc = "plot_controls"
  /\ calls' =
       IF diluted # <<>> \/ undiluted # <<>>
       THEN calls \o <<Chart("ax1.twinx")>>
              \o (IF diluted # <<>>
                  THEN (IF Truth(std_devs) /\ Len(std_devs.val) = Len(diluted)
                        THEN <<Draw("ax2.errorbar", Firsts(diluted), Seconds(diluted))>>
                        ELSE <<Draw("ax2.plot diluted", Firsts(diluted), Seconds(diluted))>>)
                  ELSE <<>>)
              \o (IF undiluted # <<>>
                  THEN <<Draw("ax2.plot undiluted", Firsts(undiluted), Seconds(undiluted))>>
                  ELSE <<>>)
       ELSE calls
  /\ Goto("legend")
  /\ UNCHANGED <<args, locals, rest>>

\* pannel lines 202-224 (plot lines 181-189): legend, title, layout
Legend ==
  /\ pc = "legend"
  /\ calls' = calls \o <<Chart("ax1.legend"), Chart("plt.title"), Chart("fig.tight_layout")>>
  /\ Goto("save")
  /\ UNCHANGED <<args, locals, rest>>

\* pannel lines 226-228 (plot lines 191-193): the image file
Save ==
  /\ pc = "save"
  /\ calls' = IF ~save_path.none THEN Append(calls, Chart("plt.savefig")) ELSE calls
  /\ Goto("show")
  /\ UNCHANGED <<args, locals, rest>>

\* pannel line 230 (plot line 195)
Show ==
  /\ pc = "show"
  /\ calls' = Append(calls, Chart("plt.show"))
  /\ Goto("done")
  /\ UNCHANGED <<args, locals, rest>>

Next ==
  \/ ReadExcel
  \/ ParseMain
  \/ MainStart
  \/ MainNormalize
  \/ ProcessDiluted
  \/ ProcessUndiluted
  \/ SkipFirstDiluted
  \/ BeginPlot
  \/ PlotTopPanel
  \/ DrawMaxMarker
  \/ PlotMain
  \/ MarkMinimum
  \/ PlotControls
  \/ Legend
  \/ Save
  \/ Show

(***************************************************************************)
(* The inputs an invocation is checked on                                  *)
(***************************************************************************)

\* sequences over S of length at most n
SeqsUpTo(S, n) == UNION {[1..k -> S] : k \in 0..n}

\* longest sheet
MaxRows == 2

\* the rows a sheet is made of (folder names are unique, so equal labels
\* carry equal values): two samples 15.45 h apart, a label whose fields are
\* not zero-padded (29 Feb 2024 09:00:00, written 24_2_29_9_0_0), a label
\* with month 13, and a row without label
RowA == Row(Some(Folder(24, 3, 1, 18, 40, 0)), Some(1))

RowB == Row(Some(Folder(24, 3, 2, 10, 7, 0)), Some(2))

RowUnpadded == Row(Some(FolderUnpadded(24, 2, 29, 9, 0, 0)), Some(3))

RowBad == Row(Some(Folder(24, 13, 1, 0, 0, 0)), Some(4))

RowNoLabel == Row(None, Some(5))

RowPool == {RowA, RowB, RowUnpadded, RowBad, RowNoLabel}

Sheets == SeqsUpTo(RowPool, MaxRows)

\* the first two samples of the files' control_data_diluted (lines 241-242),
\* a sample at the time of the first with another value, and a sample with
\* month 13
Sample1 == <<Stamp(2024, 3, 1, 18, 40, 0), 3090000>>

Sample2 == <<Stamp(2024, 3, 2, 10, 7, 0), 181000000>>

SampleTie == <<Stamp(2024, 3, 1, 18, 40, 0), 7>>

SampleBad == <<Stamp(2024, 13, 1, 0, 0, 0), 5>>

\* the diluted control of an invocation: absent, empty, one sample, in
\* order, out of order, with a tie, malformed
DilutedTables ==
  { None, Some(<<>>), Some(<<Sample1>>), Some(<<Sample1, Sample2>>),
    Some(<<Sample2, Sample1>>), Some(<<Sample1, SampleTie>>), Some(<<Sample1, SampleBad>>) }

\* the undiluted control of an invocation
UndilutedTables ==
  { None, Some(<<Sample1, Sample2>>), Some(<<Sample2, Sample1>>), Some(<<SampleBad>>) }

\* max_hour=50 is the default of the functions (line 38)
DefaultMaxHour == 50

Cutoffs == {0, DefaultMaxHour}

\* no previous invocation
NoPrev == [runs |-> 0]

\* the harnesses of the single functions, when not in use
Idle == [calls |-> <<>>]

NoCall == [returned |-> FALSE]

\* the state at the call: no local is assigned, nothing is drawn
Entry ==
  /\ pc = "read_excel"
  /\ bound = {}
  /\ dirs = <<>> /\ counts = <<>>
  /\ main_datetimes = <<>> /\ main_start = <<>> /\ main_hours = <<>> /\ main_data = <<>>
  /\ diluted = <<>> /\ undiluted = <<>>
  /\ times_main = <<>> /\ vals_main = <<>>
  /\ calls = <<>>
  /\ raised = "none"

Init ==
  /\ variant \in {"pannel", "plot"}
  /\ sheet \in Sheets
  /\ control_data_diluted \in DilutedTables
  /\ control_data_undiluted \in UndilutedTables
  /\ std_devs = None
  /\ max_hour \in Cutoffs
  /\ save_path \in {None, Some("counts.tiff")}
  /\ Entry
  /\ prev = NoPrev
  /\ normalizer = Idle
  /\ filter = NoCall

Spec == Init /\ [][Next]_vars

(***************************************************************************)
(* Repeated invocations: when one has ended, its arguments and results are *)
(* kept in prev and the function is called again with other tables.        *)
(***************************************************************************)

PairSheets == {<<RowA>>, <<RowA, RowB>>, <<RowB, RowUnpadded>>}

PairTables == {None, Some(<<Sample1, Sample2>>), Some(<<Sample2, Sample1>>)}

Reinvoke ==
  /\ pc \in {"done", "raised"}
  /\ prev' = [runs |-> 1, sheet |-> sheet, max_hour |-> max_hour,
              control_data_diluted |-> control_data_diluted,
              control_data_undiluted |-> control_data_undiluted,
              bound |-> bound, plotted |-> calls # <<>>,
              main_data |-> main_data, diluted |-> diluted, undiluted |-> undiluted]
  /\ sheet' \in PairSheets
  /\ control_data_diluted' \in PairTables
  /\ control_data_undiluted' \in PairTables
  /\ max_hour' \in Cutoffs
  /\ pc' = "read_excel"
  /\ bound' = {}
  /\ dirs' = <<>> /\ counts' = <<>>
  /\ main_datetimes' = <<>> /\ main_start' = <<>> /\ main_hours' = <<>> /\ main_data' = <<>>
  /\ diluted' = <<>> /\ undiluted' = <<>>
  /\ times_main' = <<>> /\ vals_main' = <<>>
  /\ calls' = <<>>
  /\ raised' = "none"
  /\ UNCHANGED <<variant, std_devs, save_path, normalizer, filter>>

InitPair ==
  /\ variant \in {"pannel", "plot"}
  /\ sheet \in PairSheets
  /\ control_data_diluted \in PairTables
  /\ control_data_undiluted \in PairTables
  /\ std_devs = None
  /\ max_hour \in Cutoffs
  /\ save_path = Some("counts.tiff")
  /\ Entry
  /\ prev = NoPrev
  /\ normalizer = Idle
  /\ filter = NoCall

NextPair == Next \/ Reinvoke

SpecPair == InitPair /\ [][NextPair]_vars

(***************************************************************************)
(* The normalizer alone: process_control_data_separate_timeline called     *)
(* again and again on one table with varying cutoffs; the last two calls   *)
(* are kept.                                                               *)
(***************************************************************************)

\* longest table, and longest argument list of filter_data_by_hour
MaxLen == 3

SamplePool == {Sample1, Sample2, SampleTie, SampleBad}

NormTables == {None} \cup {Some(t) : t \in SeqsUpTo(SamplePool, MaxLen)}

NormCutoffs == {-1, 0, 10, DefaultMaxHour}

\* the last two elements of a sequence
LastTwo(seq) == IF Len(seq) > 2 THEN SubSeq(seq, Len(seq) - 1, Len(seq)) ELSE seq

\* mutant of Normalize: a result, once computed for the table, is kept and
\* handed out again whatever the cutoff of the later call
Normalize_memoized ==
  /\ pc = "normalizer"
  /\ \E m \in NormCutoffs :
       normalizer' =
         [control_data |-> normalizer.control_data,
          calls |-> LastTwo(Append(normalizer.calls,
                      [max_hour |-> m,
                       result |-> IF normalizer.calls # <<>>
                                  THEN normalizer.calls[Len(normalizer.calls)].result
                                  ELSE process_control_data_separate_timeline(
                                         normalizer.control_data, m)]))]
  /\ UNCHANGED <<args, pc, locals, calls, raised, prev, filter>>

\* a call process_control_data_separate_timeline(control_data, m)
Normalize ==
  /\ pc = "normalizer"
  /\ \E m \in NormCutoffs :
       normalizer' =
         [control_data |-> normalizer.control_data,
          calls |-> LastTwo(Append(normalizer.calls,
                      [max_hour |-> m,
                       result |-> process_control_data_separate_timeline(
                                    normalizer.control_data, m)]))]
  /\ UNCHANGED <<args, pc, locals, calls, raised, prev, filter>>

InitNorm ==
  /\ variant = "pannel"
  /\ sheet = <<>>
  /\ control_data_diluted = None
  /\ control_data_undiluted = None
  /\ std_devs = None
  /\ max_hour = DefaultMaxHour
  /\ save_path = None
  /\ bound = {}
  /\ dirs = <<>> /\ counts = <<>>
  /\ main_datetimes = <<>> /\ main_start = <<>> /\ main_hours = <<>> /\ main_data = <<>>
  /\ diluted = <<>> /\ undiluted = <<>>
  /\ times_main = <<>> /\ vals_main = <<>>
  /\ calls = <<>>
  /\ raised = "none"
  /\ prev = NoPrev
  /\ pc = "normalizer"
  /\ normalizer \in {[control_data |-> t, calls |-> <<>>] : t \in NormTables}
  /\ filter = NoCall

SpecNorm == InitNorm /\ [][Normalize]_vars

(***************************************************************************)
(* filter_data_by_hour alone, on any two lists                             *)
(***************************************************************************)

\* elapsed hours: -15.45, 0.0, 15.45, 50.0
HourPool == {<<-309, 20>>, Zero, <<309, 20>>, <<DefaultMaxHour, 1>>}

ValuePool == {1, 2}

\* the call filter_data_by_hour(time_differences, data, max_hour) returns
Filter ==
  /\ pc = "filter"
  /\ ~filter.returned
  /\ filter' = [filter EXCEPT
                  !.returned = TRUE,
                  !.result = filter_data_by_hour(filter.time_differences, filter.data,
                                                 filter.max_hour)]
  /\ UNCHANGED <<args, pc, locals, calls, raised, prev, normalizer>>

InitFilter ==
  /\ variant = "pannel"
  /\ sheet = <<>>
  /\ control_data_diluted = None
  /\ control_data_undiluted = None
  /\ std_devs = None
  /\ max_hour = DefaultMaxHour
  /\ save_path = None
  /\ bound = {}
  /\ dirs = <<>> /\ counts = <<>>
  /\ main_datetimes = <<>> /\ main_start = <<>> /\ main_hours = <<>> /\ main_data = <<>>
  /\ diluted = <<>> /\ undiluted = <<>>
  /\ times_main = <<>> /\ vals_main = <<>>
  /\ calls = <<>>
  /\ raised = "none"
  /\ prev = NoPrev
  /\ pc = "filter"
  /\ normalizer = Idle
  /\ filter \in [time_differences : SeqsUpTo(HourPool, MaxLen),
                 data : SeqsUpTo(ValuePool, MaxLen),
                 max_hour : NormCutoffs,
                 returned : {FALSE},
                 result : {<<>>}]

SpecFilter == InitFilter /\ [][Filter]_vars

(***************************************************************************)
(* Invocations with standard deviations for the diluted control            *)
(***************************************************************************)

\* std_devs: absent, or a list of up to MaxLen numbers (3.77E+07 is the
\* first of the files' example, line 238)
StdDevTables == {None} \cup {Some(sd) : sd \in SeqsUpTo({37700000}, MaxLen)}

BarSheets == {<<RowA>>, <<RowB, RowA>>}

BarUndiluted == {None, Some(<<Sample1, Sample2>>)}

InitBars ==
  /\ variant \in {"pannel", "plot"}
  /\ sheet \in BarSheets
  /\ control_data_diluted \in DilutedTables
  /\ control_data_undiluted \in BarUndiluted
  /\ std_devs \in StdDevTables
  /\ max_hour \in Cutoffs
  /\ save_path = Some("counts.tiff")
  /\ Entry
  /\ prev = NoPrev
  /\ normalizer = Idle
  /\ filter = NoCall

SpecBars == InitBars /\ [][Next]_vars

(***************************************************************************)
(* Properties                                                              *)
(***************************************************************************)

\* datetime a is earlier than datetime b, by their calendar fields
Precedes(a, b) ==
  LET fa == <<a.year, a.month, a.day, a.hour, a.minute, a.second>>
      fb == <<b.year, b.month, b.day, b.hour, b.minute, b.second>>
  IN \E k \in 1..6 : fa[k] < fb[k] /\ \A j \in 1..(k - 1) : fa[j] = fb[j]

\* the diluted series as process_control_data_separate_timeline returned it,
\* before line 63 replaces it
DilutedReturned == "diluted" \in bound /\ pc \in {"undiluted", "skip_first"}

\* C1: for a non-empty raw series and max_hour >= 0 the first pair the
\* normalizer returns has elapsed_hours exactly 0; the main series (rows left
\* after dropna, lines 53-56) and both controls (lines 59-60)
C1_FirstPointAtZero ==
  max_hour >= 0 =>
    /\ ("main_data" \in bound /\ dirs # <<>>) =>
         (main_data # <<>> /\ main_data[1][1] = <<0, 1>>)
    /\ (DilutedReturned /\ Truth(control_data_diluted)) =>
         (diluted # <<>> /\ diluted[1][1] = <<0, 1>>)
    /\ ("undiluted" \in bound /\ Truth(control_data_undiluted)) =>
         (undiluted # <<>> /\ undiluted[1][1] = <<0, 1>>)

\* C1's case: at cutoff 0, a main series whose string order is not its
\* chronological order, a diluted control with a tie and an undiluted control
\* out of order have all been normalized
C1_Witness ==
  /\ max_hour = 0
  /\ sheet = <<RowUnpadded, RowA>>
  /\ control_data_diluted = Some(<<Sample1, SampleTie>>)
  /\ control_data_undiluted = Some(<<Sample2, Sample1>>)
  /\ pc = "skip_first"
  /\ Len(main_data) = 2 /\ Len(diluted) = 2 /\ Len(undiluted) = 2

\* C2: an empty or absent source series yields an empty normalized series
\* and raises nothing: the controls, and the main series when no row is left
\* after dropna
C2_EmptySeriesNoError ==
  /\ (DilutedReturned /\ ~Truth(control_data_diluted)) => diluted = <<>>
  /\ ("undiluted" \in bound /\ ~Truth(control_data_undiluted)) => undiluted = <<>>
  /\ DropNa(sheet) = <<>> => raised # "IndexError"
  /\ (DropNa(sheet) = <<>> /\ pc \in {"diluted", "undiluted", "skip_first", "done"}) =>
       ("main_data" \in bound /\ main_data = <<>>)

\* the k-th smallest element of a set of numbers
Nth(S, k) == CHOOSE i \in S : Cardinality({j \in S : j <= i}) = k

\* C3: filter_data_by_hour returns exactly the pairs (elapsed[i], values[i])
\* with elapsed[i] <= max_hour (equality keeps the point), in input order,
\* unchanged; so never more pairs than inputs
C3_FilterKeepsExactly ==
  filter.returned =>
    LET e == filter.time_differences
        v == filter.data
        kept == {i \in 1..Len(e) : i <= Len(v) /\ e[i][1] <= filter.max_hour * e[i][2]}
    IN /\ Len(filter.result) = Cardinality(kept)
       /\ \A k \in 1..Len(filter.result) :
            filter.result[k] = <<e[Nth(kept, k)], v[Nth(kept, k)]>>
       /\ Len(filter.result) <= Len(e)
       /\ Len(filter.result) <= Len(v)

\* C3's case: of 50.0, -15.45, 15.45 at cutoff 50 all are kept, the one equal
\* to the cutoff too, in input order although not sorted
C3_Witness ==
  /\ filter.returned
  /\ filter.max_hour = 50
  /\ filter.time_differences = << <<50, 1>>, <<-309, 20>>, <<309, 20>> >>
  /\ filter.data = <<1, 2, 1>>
  /\ filter.result = << <<<<50, 1>>, 1>>, <<<<-309, 20>>, 2>>, <<<<309, 20>>, 1>> >>

\* a is an initial segment of b
IsPrefix(a, b) == Len(a) <= Len(b) /\ SubSeq(b, 1, Len(a)) = a

\* a is b with some elements left out, the others in b's order
RECURSIVE IsSubseq(_, _)
IsSubseq(a, b) ==
  IF a = <<>> THEN TRUE
  ELSE IF b = <<>> THEN FALSE
  ELSE IF Head(a) = Head(b) THEN IsSubseq(Tail(a), Tail(b))
  ELSE IsSubseq(a, Tail(b))

\* the calendar fields written in a control table's timestamps
Stamps(table) == [i \in 1..Len(table) |-> strptime(table[i][1], ControlFormat).val]

\* no timestamp of the table is earlier than the one before it
Chronological(table) ==
  \A i \in 1..(Len(table) - 1) : ~Precedes(Stamps(table)[i + 1], Stamps(table)[i])

\* the calls of the normalizer that returned, on a table it accepts
Returned == {k \in 1..Len(normalizer.calls) : normalizer.calls[k].result.exc = "none"}

\* two calls on the same table, the first with the smaller cutoff, both returned
Ordered(j, k) ==
  /\ j \in Returned /\ k \in Returned
  /\ normalizer.calls[j].max_hour <= normalizer.calls[k].max_hour

\* C4 as stated: for cutoffs M1 <= M2 the normalizer's output at M1 is a
\* prefix of its output at M2
C4_PrefixAtSmallerCutoff ==
  \A j, k \in 1..Len(normalizer.calls) :
    Ordered(j, k) =>
      IsPrefix(normalizer.calls[j].result.val, normalizer.calls[k].result.val)

\* C4 amended: for cutoffs M1 <= M2 every point retained at M1 is retained at
\* M2 in the same order (the output at M1 is a subsequence of the output at
\* M2); it is a prefix when the table's timestamps are non-decreasing in
\* input order
C4_SubsequenceAtSmallerCutoff ==
  \A j, k \in 1..Len(normalizer.calls) :
    Ordered(j, k) =>
      /\ IsSubseq(normalizer.calls[j].result.val, normalizer.calls[k].result.val)
      /\ (~Truth(normalizer.control_data) \/ Chronological(normalizer.control_data.val)) =>
           IsPrefix(normalizer.calls[j].result.val, normalizer.calls[k].result.val)

\* C4's case: a table whose last sample is as early as its first, cut at 10
\* and then at 50 hours: the first and last sample, then all three
C4_Witness ==
  /\ normalizer.control_data = Some(<<Sample1, Sample2, SampleTie>>)
  /\ Len(normalizer.calls) = 2
  /\ normalizer.calls[1].max_hour = 10
  /\ normalizer.calls[2].max_hour = DefaultMaxHour
  /\ Len(normalizer.calls[1].result.val) = 2
  /\ Len(normalizer.calls[2].result.val) = 3

\* the samples of a table that are not later than its first one
NotLater(table) == {i \in 1..Len(table) : ~Precedes(Stamps(table)[1], Stamps(table)[i])}

\* C5 as stated: with max_hour = 0 the output for a non-empty series has
\* exactly one pair, the first input element at elapsed 0
C5_OnlyReferenceAtZero ==
  \A k \in Returned :
    (normalizer.calls[k].max_hour = 0 /\ Truth(normalizer.control_data)) =>
      normalizer.calls[k].result.val = << <<Zero, normalizer.control_data.val[1][2]>> >>

\* what C5 amended says of result, the output at max_hour = 0 for table
AtZero(result, table) ==
  /\ Len(result) = Cardinality(NotLater(table))
  /\ \A n \in 1..Len(result) :
       /\ result[n][2] = table[Nth(NotLater(table), n)][2]
       /\ result[n][1][1] <= 0
  /\ result[1] = <<Zero, table[1][2]>>
  /\ (\A i \in 2..Len(table) : Precedes(Stamps(table)[1], Stamps(table)[i])) =>
       Len(result) = 1

\* C5 amended: with max_hour = 0 the output for a non-empty series is the
\* samples whose timestamp is not later than the first one's, in input order;
\* its first pair is the first input element at elapsed 0, and it is the only
\* pair when every other timestamp is later than the first
C5_NotLaterThanReferenceAtZero ==
  \A k \in Returned :
    (normalizer.calls[k].max_hour = 0 /\ Truth(normalizer.control_data)) =>
      AtZero(normalizer.calls[k].result.val, normalizer.control_data.val)

\* C5's case: cut at 0 hours, a table with a later sample and one at the
\* reference's own time keeps the reference and its tie
C5_Witness ==
  /\ normalizer.control_data = Some(<<Sample1, Sample2, SampleTie>>)
  /\ normalizer.calls # <<>>
  /\ normalizer.calls[Len(normalizer.calls)].max_hour = 0
  /\ normalizer.calls[Len(normalizer.calls)].result.val =
       << <<Zero, 3090000>>, <<Zero, 7>> >>

\* C6 as stated: every pair of a normalized series has elapsed_hours >= 0
C6_ElapsedNonNegative ==
  \A k \in Returned :
    \A n \in 1..Len(normalizer.calls[k].result.val) :
      normalizer.calls[k].result.val[n][1][1] >= 0

\* the samples of a table that are earlier than its first one
Earlier(table) == {i \in 1..Len(table) : Precedes(Stamps(table)[i], Stamps(table)[1])}

\* the pairs of a normalized series with a negative elapsed time
Negative(result) == {n \in 1..Len(result) : result[n][1][1] < 0}

\* C6 amended: every pair has elapsed_hours >= 0 when no timestamp of the
\* series is earlier than its first; a sample earlier than the first gets a
\* negative elapsed time, and for max_hour >= 0 all of them are retained
C6_NegativeIffBeforeReference ==
  \A k \in Returned :
    Truth(normalizer.control_data) =>
      /\ Earlier(normalizer.control_data.val) = {} =>
           Negative(normalizer.calls[k].result.val) = {}
      /\ normalizer.calls[k].max_hour >= 0 =>
           Cardinality(Negative(normalizer.calls[k].result.val)) =
             Cardinality(Earlier(normalizer.control_data.val))
      /\ Cardinality(Negative(normalizer.calls[k].result.val)) <=
           Cardinality(Earlier(normalizer.control_data.val))

\* C6's case: a table whose second sample is 15.45 hours before its first,
\* cut at 0 hours: both are kept, the second at -15.45
C6_Witness ==
  /\ normalizer.control_data = Some(<<Sample2, Sample1>>)
  /\ normalizer.calls # <<>>
  /\ normalizer.calls[Len(normalizer.calls)].max_hour = 0
  /\ normalizer.calls[Len(normalizer.calls)].result.val =
       << <<Zero, 181000000>>, <<<<-309, 20>>, 3090000>> >>

\* seconds from 2024-03-01 18:40:00 to the timestamps of the samples
Clock(sample) == IF sample[1] = Sample2[1] THEN 927 * 60 ELSE 0

\* result holds one pair per sample of table, in input order, each at
\* (its timestamp - the first timestamp) in seconds divided by 3600
HoursOfAll(result, table) ==
  /\ Len(result) = Len(table)
  /\ \A i \in 1..Len(table) :
       /\ result[i][2] = table[i][2]
       /\ result[i][1][2] > 0
       /\ result[i][1][1] * 3600 = (Clock(table[i]) - Clock(table[1])) * result[i][1][2]

\* what the normalizer returns for the two samples of the example
ExampleAt(m) ==
  IF m >= 16 THEN << <<Zero, 3090000>>, <<<<1545, 100>>, 181000000>> >>
  ELSE IF m >= 0 THEN << <<Zero, 3090000>> >>
  ELSE <<>>

\* the same pairs, the elapsed hours as the normalizer writes them
SameHours(a, b) ==
  /\ Len(a) = Len(b)
  /\ \A i \in 1..Len(a) :
       /\ a[i][2] = b[i][2]
       /\ a[i][1][1] * b[i][1][2] = b[i][1][1] * a[i][1][2]

\* C10: the elapsed hours are (timestamp - reference) in seconds / 3600, one
\* per input timestamp in input order (seen at max_hour = 50, which drops
\* none of them); for the series (2024-03-01 18:40:00, 3.09e6),
\* (2024-03-02 10:07:00, 1.81e8) they are 0.0 and 15.45, so both points are
\* retained at max_hour = 50 and only (0.0, 3.09e6) at max_hour = 10
C10_ElapsedHoursOfExample ==
  \A k \in Returned :
    /\ (normalizer.calls[k].max_hour = DefaultMaxHour /\ Truth(normalizer.control_data)) =>
         HoursOfAll(normalizer.calls[k].result.val, normalizer.control_data.val)
    /\ normalizer.control_data = Some(<<Sample1, Sample2>>) =>
         SameHours(normalizer.calls[k].result.val, ExampleAt(normalizer.calls[k].max_hour))

\* C10's case: the example series cut at 50 and then at 10 hours
C10_Witness ==
  /\ normalizer.control_data = Some(<<Sample1, Sample2>>)
  /\ Len(normalizer.calls) = 2
  /\ normalizer.calls[1].max_hour = DefaultMaxHour
  /\ normalizer.calls[1].result.val = << <<Zero, 3090000>>, <<<<309, 20>>, 181000000>> >>
  /\ normalizer.calls[2].max_hour = 10
  /\ normalizer.calls[2].result.val = << <<Zero, 3090000>> >>

\* C7: once the rows are sorted by label and the labels parsed (line 53),
\* the timestamps of the main series are non-decreasing, and main_start
\* (line 54) is not later than any of them
C7_SortedLabelsChronological ==
  /\ "main_datetimes" \in bound =>
       \A i \in 1..(Len(main_datetimes) - 1) :
         ~Precedes(main_datetimes[i + 1], main_datetimes[i])
  /\ "main_start" \in bound =>
       \A i \in 1..Len(main_datetimes) : ~Precedes(main_datetimes[i], main_start)

\* a label of the sheet, or a timestamp of a control table that is consumed,
\* does not match its format
Malformed ==
  \/ \E i \in 1..Len(DropNa(sheet)) :
       strptime(DropNa(sheet)[i].folder.val, FolderFormat).exc # "none"
  \/ /\ Truth(control_data_diluted)
     /\ MapParse(Firsts(control_data_diluted.val), ControlFormat).exc # "none"
  \/ /\ Truth(control_data_undiluted)
     /\ MapParse(Firsts(control_data_undiluted.val), ControlFormat).exc # "none"

\* C8: when a timestamp of the main series or of a control does not match
\* its format, the invocation makes no charting call and saves no file, and
\* the exception that leaves it is the format error of the parse
C8_FormatErrorAborts ==
  Malformed =>
    /\ calls = <<>>
    /\ pc # "done"
    /\ pc = "raised" => raised = "ValueError"

\* the diluted series after line 63 (a ValueError with diluted assigned is
\* the one of line 60, which leaves the function before line 63)
DilutedSkipped ==
  /\ "diluted" \in bound
  /\ pc \notin {"diluted", "undiluted", "skip_first"}
  /\ ~(pc = "raised" /\ raised = "ValueError")

\* a normalized series starts with the series' own first sample at elapsed 0
OwnZero(series, value) == series # <<>> /\ series[1] = <<Zero, value>>

\* C9: each normalized series depends only on its own raw data and on
\* max_hour: an invocation given the same raw series and the same max_hour
\* as the previous one, whatever the other two series are, computes the same
\* normalized series; and each series' reference is its own first timestamp,
\* so (max_hour >= 0) its first sample comes first at elapsed 0
C9_IndependentZeroPoints ==
  /\ prev.runs > 0 =>
       /\ (/\ "main_data" \in bound /\ "main_data" \in prev.bound
           /\ sheet = prev.sheet /\ max_hour = prev.max_hour) =>
            main_data = prev.main_data
       /\ (/\ "undiluted" \in bound /\ "undiluted" \in prev.bound
           /\ control_data_undiluted = prev.control_data_undiluted
           /\ max_hour = prev.max_hour) =>
            undiluted = prev.undiluted
       /\ (/\ "diluted" \in prev.bound /\ prev.plotted
           /\ control_data_diluted = prev.control_data_diluted
           /\ max_hour = prev.max_hour) =>
            /\ DilutedReturned => SkipFirst(diluted) = prev.diluted
            /\ DilutedSkipped => diluted = prev.diluted
  /\ "main_data" \in bound => OwnZero(main_data, counts[1])
  /\ (DilutedReturned /\ Truth(control_data_diluted)) =>
       OwnZero(diluted, control_data_diluted.val[1][2])
  /\ ("undiluted" \in bound /\ Truth(control_data_undiluted)) =>
       OwnZero(undiluted, control_data_undiluted.val[1][2])

\* C9's case: a second invocation with the previous one's undiluted table
\* and max_hour but another sheet and another diluted table has normalized
\* its undiluted series
C9_Witness ==
  /\ prev.runs > 0
  /\ control_data_undiluted = Some(<<Sample2, Sample1>>)
  /\ prev.control_data_undiluted = control_data_undiluted
  /\ prev.max_hour = max_hour
  /\ prev.sheet = <<RowA>> /\ sheet = <<RowB, RowUnpadded>>
  /\ prev.control_data_diluted = None
  /\ control_data_diluted = Some(<<Sample1, Sample2>>)
  /\ "undiluted" \in bound
  /\ undiluted = prev.undiluted
  /\ Len(undiluted) = 2

\* every call kept in the history returned, or raised, what a first call on
\* the table with its cutoff does, and calls with one cutoff agree
SameAsFresh ==
  /\ \A k \in 1..Len(normalizer.calls) :
       normalizer.calls[k].result =
         process_control_data_separate_timeline(normalizer.control_data,
                                                normalizer.calls[k].max_hour)
  /\ \A j, k \in 1..Len(normalizer.calls) :
       normalizer.calls[j].max_hour = normalizer.calls[k].max_hour =>
         normalizer.calls[j].result = normalizer.calls[k].result

C12_VariantsRunAlike ==
  /\ pc = "top_panel" => {"times_main", "vals_main"} \subseteq bound
  /\ raised # "UnboundLocalError"
  /\ pc = "raised" => raised \in {"ValueError", "IndexError"}

\* what line 63 makes of the diluted series pre that the normalizer returned
AfterSkip(pre, post) ==
  /\ Len(pre) > 1 => post = Tail(pre)
  /\ Len(pre) <= 1 => post = pre
  /\ pre # <<>> => post # <<>>

\* the normalizer returned each series with its reference point first, and
\* the main and undiluted series still have it
ReferenceKept ==
  max_hour >= 0 =>
    /\ (DilutedReturned /\ Truth(control_data_diluted)) =>
         OwnZero(diluted, control_data_diluted.val[1][2])
    /\ ("undiluted" \in bound /\ Truth(control_data_undiluted)) =>
         OwnZero(undiluted, control_data_undiluted.val[1][2])
    /\ "main_data" \in bound => OwnZero(main_data, counts[1])

\* a step of the function: line 63 alone changes the diluted series once it
\* is returned, and no step changes the main or undiluted series once
\* assigned
DropAtLine63 ==
  /\ pc = "skip_first" => AfterSkip(diluted, diluted')
  /\ pc \notin {"diluted", "skip_first"} => diluted' = diluted
  /\ pc # "undiluted" => undiluted' = undiluted
  /\ pc # "main_hours" => main_data' = main_data

\* C13: the normalizer keeps the reference point (max_hour >= 0); line 63
\* drops the first point of the diluted series only, and only when the
\* filtered series has more than one point: a series of 0 or 1 points is
\* passed on unchanged, and the main and undiluted series keep their first
\* point up to the end of the invocation
C13_DropOnlyInCaller ==
  /\ []ReferenceKept
  /\ [][DropAtLine63]_vars

\* C13's case: of two diluted samples within 50 hours the second alone is
\* left after line 63, while the undiluted series keeps both of its samples
C13_Witness ==
  /\ control_data_diluted = Some(<<Sample1, Sample2>>)
  /\ control_data_undiluted = Some(<<Sample1, Sample2>>)
  /\ max_hour = DefaultMaxHour
  /\ pc = "begin_plot"
  /\ diluted = << <<<<309, 20>>, 181000000>> >>
  /\ Len(undiluted) = 2
  /\ Len(main_data) = 2

\* the controls have been drawn (lines 177-199 are passed)
ControlsDrawn == pc \in {"legend", "save", "show", "done"}

\* a call fn to the charting library has been made
HasCall(fn) == \E i \in 1..Len(calls) : calls[i].fn = fn

\* std_devs has one entry per sample of the diluted table, which has more
\* than one sample, all of them within max_hour (so that line 63 left one
\* fewer than the table holds)
OnePerRawSample ==
  /\ Truth(std_devs) /\ Truth(control_data_diluted)
  /\ Len(control_data_diluted.val) > 1
  /\ Len(std_devs.val) = Len(control_data_diluted.val)
  /\ Len(diluted) + 1 = Len(control_data_diluted.val)

\* C14: a diluted control that is drawn is drawn with error bars exactly
\* when std_devs is non-empty and has as many entries as the diluted series
\* has points after the cutoff and after line 63, and without error bars
\* otherwise; so with one std_dev per sample of a table of more than one
\* sample, all within max_hour, no error bars are drawn
C14_ErrorBarsIffLengthsMatch ==
  ControlsDrawn =>
    /\ diluted # <<>> =>
         /\ HasCall("ax2.errorbar") <=>
              (Truth(std_devs) /\ Len(std_devs.val) = Len(diluted))
         /\ HasCall("ax2.plot diluted") <=> ~HasCall("ax2.errorbar")
    /\ diluted = <<>> => (~HasCall("ax2.errorbar") /\ ~HasCall("ax2.plot diluted"))
    /\ OnePerRawSample => ~HasCall("ax2.errorbar")

\* C14's case: two diluted samples within 50 hours and one std_dev: the one
\* point left after line 63 has been drawn with its error bar
C14_Witness ==
  /\ variant = "pannel"
  /\ control_data_diluted = Some(<<Sample1, Sample2>>)
  /\ std_devs = Some(<<37700000>>)
  /\ max_hour = DefaultMaxHour
  /\ pc = "done"
  /\ Len(diluted) = 1
  /\ HasCall("ax2.errorbar")

====
